---- MODULE Spec2Model ----
(***************************************************************************)
(* State-machine model of the diagnostics-to-patch pipeline of             *)
(* obs-plugin-prompt-helper:                                               *)
(*   - BuildExecutor  (src/src/core/TemplateManager.ts, lines 691-1083)    *)
(*   - LogParser      (src/src/core/LogParser.ts, lines 9-244)             *)
(*   - PatchGenerator (src/src/core/LogParser.ts, lines 256-622)           *)
(*   - SimpleCMakeCacheParser (src/src/test/simpleTest.ts, lines 38-179)   *)
(*   - ConfigManager  (src/src/core/ConfigManager.ts, lines 12-377)        *)
(* The components share no state; each has its own next-state relation     *)
(* (ExecNext, PatchNext, FixNext, ParseNext, CacheNext, ConfigNext) and     *)
(* specification.                                                          *)
(***************************************************************************)
EXTENDS Integers, Sequences, FiniteSets, TLC

VARIABLES
    currentProcess, \* BuildExecutor.currentProcess: 0 = null, else the call that spawned it
    call,           \* per configure/build/clean call: "idle" | "awaiting" | "returned"
    ret,            \* what the step just taken returned to a caller of configure/build/clean
    proc,           \* per call: its child process, "running" | "errored" (after 'error'), else "none"
    signalled,      \* per child process: kill('SIGTERM') was sent to it
    cancelled,      \* history: cancel() has acted on this process, which has not closed yet
    timer,          \* per call: the setTimeout of executeCommand is pending
    stdout,         \* per call: the closure variable `stdout` of executeCommand, while awaited
    stderr,         \* per call: the closure variable `stderr` of executeCommand, while awaited
    sink,           \* what the step just taken did to the output channel (write-only)
    patches,        \* PatchGenerator.pendingPatches: the PatchOperation objects, by creation order
    acall,          \* per applyPatch call: position and locals
    aret,           \* what the step just taken returned to a caller of applyPatch
    tree,           \* fs: the diffs `git apply` has applied to the working tree, in order,
                    \* each with the patch whose applyPatch call ran that `git apply`
    scratch,        \* fs: content of <workspaceRoot>/.temp_patch.diff, <<>> when absent
    gitlog,         \* the git commands the step just taken invoked through cp.exec
    fileContent,    \* fs: the lines of the file autoFixConventions is run on
    fixViolations,  \* the violations argument the caller passes to autoFixConventions
    fixRuns,        \* autoFixConventions calls made so far on that file
    fixRet,         \* what the last autoFixConventions call returned and whether it wrote
    fixPath,        \* the filePath argument the caller passes to autoFixConventions
    logOutput,      \* the logOutput argument of LogParser.parseErrors: the lines of the text
    parseRet,       \* what parseErrors returned, once it has been called
    cacheFile,      \* fs: <buildDir>/CMakeCache.txt, its lines or absent
    cacheRet,       \* what parseCacheFile returned, once it has been called
    config,         \* ConfigManager.config, as far as `dependencies` goes
    configPath,     \* ConfigManager.configPath is set (not null)
    configFile,     \* fs: the configuration last written to .obspluginrc.json
    runtimeDependencies, \* ConfigManager.runtimeDependencies
    handled,        \* handleDependencyValidation calls made so far
    lastCache,      \* the cacheResult argument of the last of them
    cfgRet          \* what the last of them compared and did

execVars == <<currentProcess, call, ret, proc, signalled, cancelled, timer, stdout, stderr, sink>>
patchVars == <<patches, acall, aret, tree, scratch, gitlog>>
fixVars == <<fileContent, fixViolations, fixRuns, fixRet, fixPath>>
parseVars == <<logOutput, parseRet>>
cacheVars == <<cacheFile, cacheRet>>
configVars == <<config, configPath, configFile, runtimeDependencies, handled, lastCache, cfgRet>>
vars == <<currentProcess, call, ret, proc, signalled, cancelled, timer, stdout, stderr, sink,
          patches, acall, aret, tree, scratch, gitlog,
          fileContent, fixViolations, fixRuns, fixRet, fixPath,
          logOutput, parseRet, cacheFile, cacheRet,
          config, configPath, configFile, runtimeDependencies, handled, lastCache, cfgRet>>

\* What the steps of one component leave alone: the state of the others.
outsideExec == <<patchVars, fixVars, parseVars, cacheVars, configVars>>
outsidePatch == <<execVars, fixVars, parseVars, cacheVars, configVars>>
outsideFix == <<execVars, patchVars, parseVars, cacheVars, configVars>>
outsideParse == <<execVars, patchVars, fixVars, cacheVars, configVars>>
outsideCache == <<execVars, patchVars, fixVars, parseVars, configVars>>
outsideConfig == <<execVars, patchVars, fixVars, parseVars, cacheVars>>

(***************************************************************************)
(* Bounds of the model.                                                    *)
(***************************************************************************)
MaxCalls == 2        \* configure/build/clean calls made on the one BuildExecutor
MaxData == 1         \* stdout/stderr 'data' events over all child processes
MaxPatches == 1      \* generatePatch calls
MaxApplies == 2      \* applyPatch calls
MaxLines == 2        \* lines of the file autoFixConventions is run on
MaxViolations == 2   \* length of the violations argument of autoFixConventions
MaxFixRuns == 2      \* autoFixConventions calls on the file
MaxLogLines == 3     \* lines of the text given to parseErrors
MaxLineNo == 2       \* line numbers that occur in the lines given to parseErrors
MaxCacheLines == 3   \* lines of CMakeCache.txt
MaxHandles == 2      \* handleDependencyValidation calls

Calls == 1..MaxCalls

(***************************************************************************)
(* LogParser: lines of build output and the diagnostics parsed from them.  *)
(* A line is the tuple of fields the error patterns would capture from it; *)
(* shape "none" is a line no pattern matches.                              *)
(***************************************************************************)
PlainLine ==
    [shape |-> "none", file |-> "", line |-> 0, column |-> 0, severity |-> "",
     message |-> "[1/2] Building CXX object plugin.cpp.o"]

GccErrorLine ==
    [shape |-> "gcc", file |-> "src/plugin.cpp", line |-> 10, column |-> 3,
     severity |-> "error", message |-> "no member 'bar'"]

StdoutChunks == {PlainLine}
StderrChunks == {GccErrorLine}

\* String(error) of the three rejections of executeCommand, as one line of text.
ErrorText(message) ==
    [shape |-> "none", file |-> "", line |-> 0, column |-> 0, severity |-> "",
     message |-> message]

errorPatterns == <<"gcc", "msvc", "cmake", "linker">>

\* match.length of a match of each pattern: 1 + its number of capture groups.
MatchLength(pattern) ==
    CASE pattern = "gcc" -> 6
      [] pattern = "msvc" -> 6
      [] pattern = "cmake" -> 5
      [] pattern = "linker" -> 4

normalizeSeverity(severity) ==
    IF severity \in {"error", "fatal error"} THEN "error"
    ELSE IF severity = "warning" THEN "warning"
    ELSE "info"

\* path.normalize on the file names that occur in the modelled lines.
normalize(file) == IF file = "./src/plugin.cpp" THEN "src/plugin.cpp" ELSE file

\* <<>> is null; otherwise a one-element sequence holding the BuildError.  A match
\* of five elements is destructured as [, file, lineStr, severity, message]: of
\* the cmake pattern's groups the third, the parenthesised context, is what
\* lands in `severity`.
createBuildError(l) ==
    IF MatchLength(l.shape) >= 6
    THEN <<[file |-> normalize(l.file),
            line |-> IF l.line = 0 THEN 1 ELSE l.line,
            column |-> IF l.column = 0 THEN 1 ELSE l.column,
            severity |-> normalizeSeverity(l.severity),
            message |-> l.message]>>
    ELSE IF MatchLength(l.shape) >= 5
    THEN <<[file |-> normalize(l.file),
            line |-> IF l.line = 0 THEN 1 ELSE l.line,
            column |-> 1,
            severity |-> normalizeSeverity(l.context),
            message |-> l.message]>>
    ELSE <<>>

\* localeCompare order of the file names that occur in the modelled lines.
FileOrder == <<"CMakeLists.txt", "src/plugin.cpp", "src/ui/dialog.cpp">>

FileRank(f) == IF \E k \in 1..Len(FileOrder) : FileOrder[k] = f
               THEN CHOOSE k \in 1..Len(FileOrder) : FileOrder[k] = f
               ELSE 0

\* A comparator that looks at the file only.
SortsAfter_FileOnly(a, b) ==
    a.file # b.file /\ FileRank(a.file) > FileRank(b.file)

\* The comparator of errors.sort: a sorts strictly after b.
SortsAfter(a, b) ==
    IF a.file # b.file THEN FileRank(a.file) > FileRank(b.file)
    ELSE a.line > b.line

RECURSIVE InsertSorted(_, _)
InsertSorted(e, s) ==
    IF s = <<>> THEN <<e>>
    ELSE IF SortsAfter(s[Len(s)], e)
         THEN Append(InsertSorted(e, SubSeq(s, 1, Len(s) - 1)), s[Len(s)])
         ELSE Append(s, e)

RECURSIVE SortErrors(_)
SortErrors(s) ==
    IF s = <<>> THEN <<>>
    ELSE InsertSorted(s[Len(s)], SortErrors(SubSeq(s, 1, Len(s) - 1)))

RECURSIVE MatchesOf(_, _)
MatchesOf(pattern, text) ==
    IF text = <<>> THEN <<>>
    ELSE (IF text[1].shape = pattern THEN createBuildError(text[1]) ELSE <<>>)
         \o MatchesOf(pattern, Tail(text))

RECURSIVE CollectErrors(_, _)
CollectErrors(k, text) ==
    IF k > Len(errorPatterns) THEN <<>>
    ELSE MatchesOf(errorPatterns[k], text) \o CollectErrors(k + 1, text)

parseErrors(text) == SortErrors(CollectErrors(1, text))

(***************************************************************************)
(* BuildExecutor.                                                          *)
(*                                                                         *)
(* configure, build and clean are one code path up to the await of         *)
(* executeCommand and differ only in what they do once its promise has     *)
(* settled: the command they report, whether stderr is parsed, the         *)
(* validation after a successful configure.  Which wrapper is awaiting,    *)
(* and with which profile, is therefore an input of the step that resumes  *)
(* it (a Caller), not a field of the state in between.                     *)
(***************************************************************************)
Ops == {"configure", "build", "clean"}

\* PlatformProfile objects the caller passes in.
Profiles ==
    { [cmake_preset |-> "macos",
       configure_command |-> "cmake --preset macos",
       build_command |-> "cmake --build --preset macos"] }

Callers == [op : Ops, profile : Profiles]

\* `cmake --build --preset ${profile.cmake_preset} --target clean`
cleanCommand(profile) == <<"cmake --build --preset", profile.cmake_preset, "--target clean">>

\* The command string each operation hands to executeCommand and reports.
CommandOf(op, profile) ==
    CASE op = "configure" -> <<profile.configure_command>>
      [] op = "build" -> <<profile.build_command>>
      [] op = "clean" -> cleanCommand(profile)

\* The errors executeCommand's promise is rejected with.
SpawnThrown == "Error: spawn failed"
ProcessError == "Error: spawn ENOENT"
TimeoutError(op) ==
    CASE op = "configure" -> "Error: Configure operation timed out after 5 minutes"
      [] op = "build" -> "Error: Build operation timed out after 5 minutes"
      [] op = "clean" -> "Error: Clean operation timed out after 5 minutes"

\* `code || 0` of the close handler; code is <<>> for null, <<n>> for a number.
ExitCodeOf(code) == IF code = <<>> THEN 0 ELSE code[1]

\* The try branch of configure/build/clean: the BuildResult built after the await.
TryResult(op, profile, exitCode, out, err) ==
    [success |-> exitCode = 0,
     exit_code |-> exitCode,
     stdout |-> out,
     stderr |-> err,
     errors |-> IF op = "clean" THEN <<>> ELSE parseErrors(err),
     cmake_preset |-> profile.cmake_preset,
     build_command |-> CommandOf(op, profile)]

\* The catch branch of configure/build/clean.
CatchResult(op, profile, error) ==
    [success |-> FALSE,
     exit_code |-> -1,
     stdout |-> <<>>,
     stderr |-> <<ErrorText(error)>>,
     errors |-> <<>>,
     cmake_preset |-> profile.cmake_preset,
     build_command |-> CommandOf(op, profile)]

\* configure awaits validateDependencyPaths only if buildResult.success.  The
\* BuildResult is built before and the value validateDependencyPaths returns
\* (its own try/catch turns every outcome into one) is discarded.
RunsValidation(op, exitCode) == op = "configure" /\ exitCode = 0

NoReturn == [call |-> 0]

\* configure/build/clean resumed by a resolved promise: the try branch returns.
\* via, cancelled, out and err record how the call ended and what its closure
\* strings held at that moment.
\* code is the argument of the 'close' event; validated tells whether the try
\* branch ran validateDependencyPaths.
TryReturn(i, c, code, out, err, wasCancelled) ==
    [call |-> i, kind |-> "result", via |-> "close", op |-> c.op, profile |-> c.profile,
     cancelled |-> wasCancelled, out |-> out, err |-> err,
     code |-> code, validated |-> RunsValidation(c.op, ExitCodeOf(code)),
     result |-> TryResult(c.op, c.profile, ExitCodeOf(code), out, err)]

\* Mutant of CatchReturn: the rejection leaves configure/build/clean as an exception.
CatchReturn_Rethrows(i, c, error, how, out, err, wasCancelled) ==
    [call |-> i, kind |-> "exception", via |-> how, op |-> c.op, profile |-> c.profile,
     cancelled |-> wasCancelled, out |-> out, err |-> err,
     result |-> CatchResult(c.op, c.profile, error)]

\* configure/build/clean resumed by a rejected promise: the catch block returns a
\* BuildResult, nothing is rethrown.
CatchReturn(i, c, error, how, out, err, wasCancelled) ==
    [call |-> i, kind |-> "result", via |-> how, op |-> c.op, profile |-> c.profile,
     cancelled |-> wasCancelled, out |-> out, err |-> err,
     result |-> CatchResult(c.op, c.profile, error)]

\* A line of the output channel: its kind, and for a streamed chunk the process
\* it came from and its text.
Tok(k, p, l) == [k |-> k, p |-> p, line |-> l]
Line(k) == Tok(k, 0, ErrorText(""))

\* outputManager.clear() and the three header lines.
Header == <<Line("clear"), Line("header"), Line("command"), Line("rule")>>

\* displayErrors: nothing for an empty list, else a title and one entry per error.
displayErrors(errors) ==
    IF errors = <<>> THEN <<>>
    ELSE <<Line("errors")>> \o [k \in 1..Len(errors) |-> Line("diagnostic")]

\* What the try branch appends to the output channel after the await.
TryLines(op, res) ==
    IF res.success
    THEN <<Line("completed")>>
         \o (IF RunsValidation(op, res.exit_code) THEN <<Line("validating")>> ELSE <<>>)
    ELSE <<Line("failed")>>
         \o (IF op = "clean" THEN <<>> ELSE displayErrors(res.errors))

CatchLines == <<Line("failed")>>

RECURSIVE TotalLen(_, _)
TotalLen(f, n) == IF n = 0 THEN 0 ELSE Len(f[n]) + TotalLen(f, n - 1)

\* Room in the closure strings for one more chunk within the bound.
MayEmit == TotalLen(stdout, MaxCalls) + TotalLen(stderr, MaxCalls) < MaxData

\* A 'data' listener's += on its closure string.  Once the call has returned no
\* code reads the string any more, and it is no longer tracked.
Captured(i, s, chunk) == IF call[i] = "awaiting" THEN Append(s, chunk) ELSE s

(* configure / build / clean up to the await: clear the channel, print the *)
(* header, run the executor of executeCommand's promise (spawn, listeners, *)
(* timer).  A spawn that throws rejects the promise at once and the catch  *)
(* block of caller c returns.  There is no check of currentProcess before  *)
(* the spawn.                                                              *)
StartCall(i) ==
    /\ call[i] = "idle"
    /\ \A j \in Calls : j < i => call[j] # "idle"
    /\ call' = [call EXCEPT ![i] = "awaiting"]
    /\ currentProcess' = i
    /\ proc' = [proc EXCEPT ![i] = "running"]
    /\ timer' = [timer EXCEPT ![i] = TRUE]
    /\ sink' = Header
    /\ ret' = NoReturn
    /\ UNCHANGED <<signalled, cancelled, stdout, stderr, outsideExec>>

StartCallThrows(i, c) ==
    /\ call[i] = "idle"
    /\ \A j \in Calls : j < i => call[j] # "idle"
    /\ call' = [call EXCEPT ![i] = "returned"]
    /\ ret' = CatchReturn(i, c, SpawnThrown, "spawn", <<>>, <<>>, FALSE)
    /\ sink' = Header \o CatchLines
    /\ UNCHANGED <<currentProcess, proc, timer, signalled, cancelled, stdout, stderr,
                   outsideExec>>

(* stdout 'data' listener. *)
StdoutData(i, chunk) ==
    /\ proc[i] = "running"
    /\ call[i] = "awaiting" => MayEmit
    /\ stdout' = [stdout EXCEPT ![i] = Captured(i, @, chunk)]
    /\ sink' = <<Tok("stdout", i, chunk)>>
    /\ ret' = NoReturn
    /\ UNCHANGED <<currentProcess, call, proc, signalled, cancelled, timer, stderr, outsideExec>>

(* stderr 'data' listener. *)
StderrData(i, chunk) ==
    /\ proc[i] = "running"
    /\ call[i] = "awaiting" => MayEmit
    /\ stderr' = [stderr EXCEPT ![i] = Captured(i, @, chunk)]
    /\ sink' = <<Tok("stderr", i, chunk)>>
    /\ ret' = NoReturn
    /\ UNCHANGED <<currentProcess, call, proc, signalled, cancelled, timer, stdout, outsideExec>>

\* Exit codes a child may report; <<>> (null) only when a signal ended it.
CloseCodes(i) == {<<0>>, <<1>>} \cup (IF signalled[i] THEN {<<>>} ELSE {})

\* What both 'close' listeners do besides resolving.  Nothing of the invocation
\* is reachable after 'close': its closure strings and the history of its
\* process are reset.
CloseEffects(i) ==
    /\ proc' = [proc EXCEPT ![i] = "none"]
    /\ currentProcess' = 0
    /\ timer' = [timer EXCEPT ![i] = FALSE]
    /\ stdout' = [stdout EXCEPT ![i] = <<>>]
    /\ stderr' = [stderr EXCEPT ![i] = <<>>]
    /\ signalled' = [signalled EXCEPT ![i] = FALSE]
    /\ cancelled' = [cancelled EXCEPT ![i] = FALSE]

(* 'close' while the call awaits: both listeners, then the try branch of   *)
(* the awaiting caller c.                                                  *)
Close(i, code, c) ==
    /\ proc[i] = "running"
    /\ call[i] = "awaiting"
    /\ code \in CloseCodes(i)
    /\ CloseEffects(i)
    /\ LET r == TryReturn(i, c, code, stdout[i], stderr[i], cancelled[i])
       IN /\ ret' = r
          /\ sink' = TryLines(c.op, r.result)
    /\ call' = [call EXCEPT ![i] = "returned"]
    /\ UNCHANGED outsideExec

(* 'close' after the promise was rejected: resolve() has no effect.        *)
CloseSettled(i) ==
    /\ proc[i] \in {"running", "errored"}
    /\ call[i] = "returned"
    /\ CloseEffects(i)
    /\ ret' = NoReturn
    /\ sink' = <<>>
    /\ UNCHANGED <<call, outsideExec>>

(* 'error' listener (the child could not be spawned: nothing was streamed  *)
(* yet), then the catch block of the awaiting caller c.                    *)
ProcError(i, c) ==
    /\ proc[i] = "running"
    /\ call[i] = "awaiting"
    /\ stdout[i] = <<>> /\ stderr[i] = <<>>
    /\ proc' = [proc EXCEPT ![i] = "errored"]
    /\ currentProcess' = 0
    /\ ret' = CatchReturn(i, c, ProcessError, "error", stdout[i], stderr[i], cancelled[i])
    /\ call' = [call EXCEPT ![i] = "returned"]
    /\ sink' = CatchLines
    /\ UNCHANGED <<signalled, cancelled, timer, stdout, stderr, outsideExec>>

(* The setTimeout callback of call i with the handle set: kill whatever    *)
(* process the handle refers to and reject; the catch block of the         *)
(* awaiting caller c returns (after which the closure strings are dead).   *)
Timeout(i, c) ==
    /\ timer[i]
    /\ currentProcess # 0
    /\ call[i] = "awaiting"
    /\ timer' = [timer EXCEPT ![i] = FALSE]
    /\ signalled' = [signalled EXCEPT ![currentProcess] = TRUE]
    /\ ret' = CatchReturn(i, c, TimeoutError(c.op), "timeout", stdout[i], stderr[i],
                          cancelled[i])
    /\ call' = [call EXCEPT ![i] = "returned"]
    /\ sink' = CatchLines
    /\ stdout' = [stdout EXCEPT ![i] = <<>>]
    /\ stderr' = [stderr EXCEPT ![i] = <<>>]
    /\ UNCHANGED <<currentProcess, proc, cancelled, outsideExec>>

(* The setTimeout callback of call i with the handle set, the promise      *)
(* already rejected: the kill is all that happens.                         *)
TimeoutSettled(i) ==
    /\ timer[i]
    /\ currentProcess # 0
    /\ call[i] = "returned"
    /\ timer' = [timer EXCEPT ![i] = FALSE]
    /\ signalled' = [signalled EXCEPT ![currentProcess] = TRUE]
    /\ ret' = NoReturn
    /\ sink' = <<>>
    /\ UNCHANGED <<currentProcess, call, proc, cancelled, stdout, stderr, outsideExec>>

(* The setTimeout callback of call i with the handle null: nothing is      *)
(* killed and nothing is rejected.                                         *)
TimeoutIdle(i) ==
    /\ timer[i]
    /\ currentProcess = 0
    /\ timer' = [timer EXCEPT ![i] = FALSE]
    /\ ret' = NoReturn
    /\ sink' = <<>>
    /\ UNCHANGED <<currentProcess, call, proc, signalled, cancelled, stdout, stderr,
                   outsideExec>>

(* cancel(): a no-op when the handle is null. *)
Cancel ==
    /\ currentProcess # 0
    /\ signalled' = [signalled EXCEPT ![currentProcess] = TRUE]
    /\ cancelled' = [cancelled EXCEPT ![currentProcess] = TRUE]
    /\ currentProcess' = 0
    /\ sink' = <<Line("cancelled")>>
    /\ ret' = NoReturn
    /\ UNCHANGED <<call, proc, timer, stdout, stderr, outsideExec>>

ExecNext ==
    \/ \E i \in Calls : StartCall(i)
    \/ \E i \in Calls, c \in Callers : StartCallThrows(i, c)
    \/ \E i \in Calls, chunk \in StdoutChunks : StdoutData(i, chunk)
    \/ \E i \in Calls, chunk \in StderrChunks : StderrData(i, chunk)
    \/ \E i \in Calls, code \in {<<>>, <<0>>, <<1>>}, c \in Callers : Close(i, code, c)
    \/ \E i \in Calls : CloseSettled(i)
    \/ \E i \in Calls, c \in Callers : ProcError(i, c)
    \/ \E i \in Calls, c \in Callers : Timeout(i, c)
    \/ \E i \in Calls : TimeoutSettled(i)
    \/ \E i \in Calls : TimeoutIdle(i)
    \/ Cancel

ExecInit ==
    /\ currentProcess = 0
    /\ call = [i \in Calls |-> "idle"]
    /\ ret = NoReturn
    /\ proc = [i \in Calls |-> "none"]
    /\ signalled = [i \in Calls |-> FALSE]
    /\ cancelled = [i \in Calls |-> FALSE]
    /\ timer = [i \in Calls |-> FALSE]
    /\ stdout = [i \in Calls |-> <<>>]
    /\ stderr = [i \in Calls |-> <<>>]
    /\ sink = <<>>

(***************************************************************************)
(* PatchGenerator: suggestion texts, files and PatchOperation objects.     *)
(* A text is a sequence of lines and a line a sequence of fragments; the   *)
(* markers "@@", "---" and "+++" are fragments of their own, so that       *)
(* String.includes and String.startsWith can be told apart.  A file path   *)
(* is its directory segments, base name and extension.                     *)
(***************************************************************************)
PluginCpp == [dirs |-> <<"src">>, name |-> "plugin", ext |-> ".cpp"]
DialogHpp == [dirs |-> <<"src", "ui">>, name |-> "dialog", ext |-> ".hpp"]
MissingCpp == [dirs |-> <<"src">>, name |-> "missing", ext |-> ".cpp"]

\* fs.existsSync: the files present in the workspace
ExistingFiles == {PluginCpp, DialogHpp}

TargetLists == {<<PluginCpp, DialogHpp>>, <<PluginCpp, MissingCpp>>}

DiffText ==
    << <<"---", " a/src/plugin.cpp">>, <<"+++", " b/src/plugin.cpp">>,
       <<"@@", " -1 +1 ", "@@">>, <<"+", "fixed">> >>
InlineMarkers == << <<"turn ", "---", " into ", "+++", " near ", "@@">> >>
EditText == << <<"replace foo with bar">> >>

Suggestions == {DiffText, InlineMarkers, EditText}

\* content.includes(marker)
Includes(content, marker) ==
    \E l \in 1..Len(content) : \E k \in 1..Len(content[l]) : content[l][k] = marker

\* content.split('\n').some(line => line.startsWith(marker))
SomeLineStartsWith(content, marker) ==
    \E l \in 1..Len(content) : Len(content[l]) > 0 /\ content[l][1] = marker

detectPatchType(content) ==
    IF Includes(content, "@@") /\ Includes(content, "---") /\ Includes(content, "+++")
    THEN "unified_diff"
    ELSE "edit_instructions"

isValidUnifiedDiff(content) ==
    /\ SomeLineStartsWith(content, "@@")
    /\ SomeLineStartsWith(content, "---")
    /\ SomeLineStartsWith(content, "+++")

generatePatch(suggestion, targetFiles, conventionCompliant) ==
    [type |-> detectPatchType(suggestion),
     content |-> suggestion,
     target_files |-> targetFiles,
     validation_status |-> "pending",
     convention_compliance |-> conventionCompliant,
     auto_commit |-> conventionCompliant]

\* Mutant of validatePatch: the existence of the target files is not checked.
validatePatch_NoFileCheck(patch) ==
    IF patch.type = "unified_diff" /\ ~isValidUnifiedDiff(patch.content)
    THEN [valid |-> FALSE, reason |-> "Invalid unified diff format"]
    ELSE [valid |-> TRUE, reason |-> ""]

validatePatch(patch) ==
    IF \E k \in 1..Len(patch.target_files) : patch.target_files[k] \notin ExistingFiles
    THEN [valid |-> FALSE, reason |-> "Target file does not exist"]
    ELSE IF patch.type = "unified_diff" /\ ~isValidUnifiedDiff(patch.content)
    THEN [valid |-> FALSE, reason |-> "Invalid unified diff format"]
    ELSE [valid |-> TRUE, reason |-> ""]

\* f.includes('/ui/') on a relative path
InUiDir(f) == \E k \in 2..Len(f.dirs) : f.dirs[k] = "ui"

generateCommitMessage(files) ==
    LET fileTypes == {files[k].ext : k \in 1..Len(files)}
        hasHeaders == ".hpp" \in fileTypes \/ ".h" \in fileTypes
        hasSource == ".cpp" \in fileTypes \/ ".c" \in fileTypes
        hasUI == \E k \in 1..Len(files) : InUiDir(files[k])
    IN  IF hasUI THEN "Fix: Update UI components"
        ELSE IF hasHeaders /\ hasSource THEN "Fix: Update implementation and headers"
        ELSE IF hasHeaders THEN "Fix: Update header files"
        ELSE IF hasSource THEN "Fix: Update source files"
        ELSE "Fix: Update project files"

\* The cp.exec invocations of autoCommit, in order: one `git add` per file, then
\* the `git commit`.
CommitChain(files) ==
    [k \in 1..Len(files) |-> [cmd |-> "add", arg |-> files[k].name]]
      \o <<[cmd |-> "commit", arg |-> generateCommitMessage(files)]>>

Applies == 1..MaxApplies

NoApplyReturn == [call |-> 0]
ApplyReturn(a, p, value, committed) ==
    [call |-> a, patch |-> p, value |-> value, committed |-> committed]

NotCalled == [pc |-> "idle", patch |-> 0, exit |-> FALSE]
Done == [pc |-> "returned", patch |-> 0, exit |-> FALSE]

SetStatus(p, status) == [patches EXCEPT ![p].validation_status = status]

(***************************************************************************)
(* PatchGenerator.applyPatch.  Each step is one turn of the event loop: a  *)
(* call runs from its start, or from the callback of the cp.exec it awaits,*)
(* up to the next cp.exec or to its return.  validatePatch and the edit    *)
(* instructions await nothing that leaves the turn.  The `git add` /       *)
(* `git commit` chain of autoCommit is taken as one step whose input is    *)
(* the command that fails, if any.  Whether a workspace folder is open is  *)
(* read from the editor at each use, so it is an input of the step.        *)
(***************************************************************************)
MayApply(a, p) ==
    /\ acall[a].pc = "idle"
    /\ \A b \in Applies : b < a => acall[b].pc # "idle"
    /\ p \in 1..Len(patches)

\* Mutant of Succeeded: autoCommit runs whatever the patch's auto_commit flag.
Succeeded_AlwaysCommits(a, p, root) ==
    /\ patches' = SetStatus(p, "valid")
    /\ IF root
       THEN /\ acall' = [acall EXCEPT ![a] = [pc |-> "auto_commit", patch |-> p, exit |-> TRUE]]
            /\ gitlog' = <<CommitChain(patches[p].target_files)[1]>>
            /\ aret' = NoApplyReturn
       ELSE /\ acall' = [acall EXCEPT ![a] = Done]
            /\ gitlog' = <<>>
            /\ aret' = ApplyReturn(a, p, TRUE, FALSE)

\* applyPatch lines 315-323 and 329: the apply succeeded.
Succeeded(a, p, root) ==
    /\ patches' = SetStatus(p, "valid")
    /\ IF patches[p].auto_commit /\ patches[p].convention_compliance /\ root
       THEN /\ acall' = [acall EXCEPT ![a] = [pc |-> "auto_commit", patch |-> p, exit |-> TRUE]]
            /\ gitlog' = <<CommitChain(patches[p].target_files)[1]>>
            /\ aret' = NoApplyReturn
       ELSE /\ acall' = [acall EXCEPT ![a] = Done]
            /\ gitlog' = <<>>
            /\ aret' = ApplyReturn(a, p, TRUE, FALSE)

\* applyPatch lines 324-329: the apply failed.
Failed(a, p) ==
    /\ patches' = SetStatus(p, "invalid")
    /\ acall' = [acall EXCEPT ![a] = Done]
    /\ gitlog' = <<>>
    /\ aret' = ApplyReturn(a, p, FALSE, FALSE)

GeneratePatch(suggestion, targetFiles, conventionCompliant) ==
    /\ Len(patches) < MaxPatches
    /\ patches' = Append(patches, generatePatch(suggestion, targetFiles, conventionCompliant))
    /\ aret' = NoApplyReturn
    /\ gitlog' = <<>>
    /\ UNCHANGED <<acall, tree, scratch, outsidePatch>>

\* validatePatch rejects the patch: applyPatch returns false at line 304.
ApplyRejected(a, p) ==
    /\ MayApply(a, p)
    /\ ~validatePatch(patches[p]).valid
    /\ acall' = [acall EXCEPT ![a] = Done]
    /\ aret' = ApplyReturn(a, p, FALSE, FALSE)
    /\ gitlog' = <<>>
    /\ UNCHANGED <<patches, tree, scratch, outsidePatch>>

\* applyUnifiedDiff up to its await: write the scratch file, exec `git apply`.
ApplyDiff(a, p) ==
    /\ MayApply(a, p)
    /\ validatePatch(patches[p]).valid
    /\ patches[p].type = "unified_diff"
    /\ scratch' = patches[p].content
    /\ gitlog' = <<[cmd |-> "apply", arg |-> ".temp_patch.diff"]>>
    /\ acall' = [acall EXCEPT ![a] = [pc |-> "git_apply", patch |-> p, exit |-> FALSE]]
    /\ aret' = NoApplyReturn
    /\ UNCHANGED <<patches, tree, outsidePatch>>

\* applyUnifiedDiff without a workspace folder (line 437) or with a throwing
\* writeFileSync (caught at line 454): false, nothing written.
ApplyDiffFails(a, p) ==
    /\ MayApply(a, p)
    /\ validatePatch(patches[p]).valid
    /\ patches[p].type = "unified_diff"
    /\ Failed(a, p)
    /\ UNCHANGED <<tree, scratch, outsidePatch>>

\* applyEditInstructions: the one parsed instruction is "applied" by a
\* placeholder that touches no file and returns true.
ApplyEdit(a, p, root) ==
    /\ MayApply(a, p)
    /\ validatePatch(patches[p]).valid
    /\ patches[p].type = "edit_instructions"
    /\ Succeeded(a, p, root)
    /\ UNCHANGED <<tree, scratch, outsidePatch>>

\* The `git apply` child process: it reads the scratch file as it is now and
\* either applies what it read to the working tree or fails.
GitApplyRuns(a, ok) ==
    /\ acall[a].pc = "git_apply"
    /\ LET applied == ok /\ scratch # <<>>
       IN  /\ tree' = IF applied
                     THEN Append(tree, [content |-> scratch, patch |-> acall[a].patch])
                     ELSE tree
           /\ acall' = [acall EXCEPT ![a].pc = "git_exit", ![a].exit = applied]
    /\ aret' = NoApplyReturn
    /\ gitlog' = <<>>
    /\ UNCHANGED <<patches, scratch, outsidePatch>>

\* Mutant of GitApplyDone: no finally block, the scratch file is left behind.
GitApplyDone_NoCleanup(a, root) ==
    /\ acall[a].pc = "git_exit"
    /\ IF acall[a].exit THEN Succeeded(a, acall[a].patch, root)
                        ELSE Failed(a, acall[a].patch)
    /\ UNCHANGED <<tree, scratch, outsidePatch>>

\* The callback of `git apply`: the finally block unlinks the scratch file if
\* one exists, then applyPatch goes on with the outcome.
GitApplyDone(a, root) ==
    /\ acall[a].pc = "git_exit"
    /\ scratch' = <<>>
    /\ IF acall[a].exit THEN Succeeded(a, acall[a].patch, root)
                        ELSE Failed(a, acall[a].patch)
    /\ UNCHANGED <<tree, outsidePatch>>

\* The callbacks of autoCommit's chain: failAt is the position of the command
\* that fails (past the end: none).  A failure is caught inside autoCommit, so
\* applyPatch returns true either way.
AutoCommitDone(a) ==
    /\ acall[a].pc = "auto_commit"
    /\ LET p == acall[a].patch
           chain == CommitChain(patches[p].target_files)
       IN  \E failAt \in 1..(Len(chain) + 1) :
               LET last == IF failAt < Len(chain) THEN failAt ELSE Len(chain)
               IN  /\ gitlog' = SubSeq(chain, 2, last)
                   /\ aret' = ApplyReturn(a, p, TRUE, failAt = Len(chain) + 1)
    /\ acall' = [acall EXCEPT ![a] = Done]
    /\ UNCHANGED <<patches, tree, scratch, outsidePatch>>

PatchNext ==
    \/ \E s \in Suggestions, t \in TargetLists, cc \in BOOLEAN : GeneratePatch(s, t, cc)
    \/ \E a \in Applies, p \in 1..MaxPatches : ApplyRejected(a, p)
    \/ \E a \in Applies, p \in 1..MaxPatches : ApplyDiff(a, p)
    \/ \E a \in Applies, p \in 1..MaxPatches : ApplyDiffFails(a, p)
    \/ \E a \in Applies, p \in 1..MaxPatches, root \in BOOLEAN : ApplyEdit(a, p, root)
    \/ \E a \in Applies, ok \in BOOLEAN : GitApplyRuns(a, ok)
    \/ \E a \in Applies, root \in BOOLEAN : GitApplyDone(a, root)
    \/ \E a \in Applies : AutoCommitDone(a)

PatchInit ==
    /\ patches = <<>>
    /\ acall = [a \in Applies |-> NotCalled]
    /\ aret = NoApplyReturn
    /\ tree = <<>>
    /\ scratch = <<>>
    /\ gitlog = <<>>

(***************************************************************************)
(* PatchGenerator.autoFixConventions.  A file is the sequence of its lines *)
(* (content.split('\n'), never empty), a line a sequence of fragments as   *)
(* in the suggestion texts, the fragment " " being white space.            *)
(***************************************************************************)
CommentLine == <<"//", " license">>
BlockOpenLine == <<"/*", " license">>
BlockInnerLine == <<" ", "*", " all rights reserved">>
BlockCloseLine == <<" ", "*/">>
BlankLine == <<>>
PragmaLine == <<"#pragma once">>
QtClassLine == <<"class Dialog : public QDialog { ", "Q_OBJECT", " };">>

LineKinds ==
    {CommentLine, BlockOpenLine, BlockInnerLine, BlockCloseLine, BlankLine, PragmaLine,
     QtClassLine}

FileContents == UNION {[1..n -> LineKinds] : n \in 1..MaxLines}

\* ConventionViolation objects; auto_fixable is fixed per type.
Violation(type) ==
    [type |-> type, auto_fixable |-> type # "ui_component_location"]

ViolationTypes ==
    {"missing_pragma_once", "wrong_header_extension", "ui_component_location",
     "moc_include_missing"}

ViolationLists ==
    UNION {[1..n -> {Violation(t) : t \in ViolationTypes}] : n \in 0..MaxViolations}

\* The filePath argument of autoFixConventions.
FixedFile == DialogHpp

\* The same header under the extension validateConventions objects to.
DialogH == [dirs |-> <<"src">>, name |-> "dialog", ext |-> ".h"]

FixPaths == {FixedFile, DialogH}

\* `#include "moc_${path.parse(filePath).name}.cpp"`
MocInclude(filePath) ==
    IF filePath.name = "dialog" THEN "#include \"moc_dialog.cpp\""
    ELSE IF filePath.name = "plugin" THEN "#include \"moc_plugin.cpp\""
    ELSE "#include \"moc_missing.cpp\""

RECURSIVE TrimStart(_)
TrimStart(line) ==
    IF line # <<>> /\ line[1] = " " THEN TrimStart(Tail(line)) ELSE line

RECURSIVE TrimEnd(_)
TrimEnd(line) ==
    IF line # <<>> /\ line[Len(line)] = " "
    THEN TrimEnd(SubSeq(line, 1, Len(line) - 1))
    ELSE line

\* line.trim()
Trim(line) == TrimEnd(TrimStart(line))

StartsWith(line, prefix) == line # <<>> /\ line[1] = prefix

\* The loop condition of the search for the insertion point.
SkippedLine(line) ==
    \/ StartsWith(Trim(line), "//")
    \/ StartsWith(Trim(line), "/*")
    \/ Trim(line) = <<>>

\* The while loop of applyConventionFix, as a number of lines to skip.
RECURSIVE InsertIndex(_, _)
InsertIndex(lines, n) ==
    IF n < Len(lines) /\ SkippedLine(lines[n + 1]) THEN InsertIndex(lines, n + 1) ELSE n

\* lines.splice(insertIndex, 0, '#pragma once', '')
Splice(lines, n) ==
    SubSeq(lines, 1, n) \o <<PragmaLine, BlankLine>> \o SubSeq(lines, n + 1, Len(lines))

\* Mutant of applyConventionFix: the fixes do not look at the content first.
applyConventionFix_Unconditional(content, violation, filePath) ==
    IF violation.type = "missing_pragma_once"
    THEN [success |-> TRUE, content |-> Splice(content, InsertIndex(content, 0))]
    ELSE IF violation.type = "moc_include_missing"
    THEN [success |-> TRUE, content |-> content \o <<<<MocInclude(filePath)>>, BlankLine>>]
    ELSE [success |-> FALSE, content |-> content]

applyConventionFix(content, violation, filePath) ==
    IF violation.type = "missing_pragma_once" /\ ~Includes(content, "#pragma once")
    THEN [success |-> TRUE, content |-> Splice(content, InsertIndex(content, 0))]
    ELSE IF violation.type = "moc_include_missing"
            /\ ~Includes(content, MocInclude(filePath))
    THEN [success |-> TRUE, content |-> content \o <<<<MocInclude(filePath)>>, BlankLine>>]
    ELSE [success |-> FALSE, content |-> content]

\* The for loop of autoFixConventions over the violations from the k-th on.
RECURSIVE ApplyFixes(_, _, _, _)
ApplyFixes(acc, violations, k, filePath) ==
    IF k > Len(violations) THEN acc
    ELSE LET fixResult == applyConventionFix(acc.content, violations[k], filePath)
         IN  ApplyFixes(IF fixResult.success
                        THEN [content |-> fixResult.content, modified |-> TRUE]
                        ELSE acc,
                        violations, k + 1, filePath)

IsAutoFixable(v) == v.auto_fixable

\* autoFixConventions when nothing throws: the content it leaves in the file,
\* whether it wrote the file, and the value it returns.
autoFixConventions(filePath, violations, onDisk) ==
    LET autoFixableViolations == SelectSeq(violations, IsAutoFixable)
        done == ApplyFixes([content |-> onDisk, modified |-> FALSE],
                           autoFixableViolations, 1, filePath)
    IN  IF autoFixableViolations = <<>>
        THEN [value |-> TRUE, wrote |-> FALSE, content |-> onDisk]
        ELSE [value |-> TRUE, wrote |-> done.modified,
              content |-> IF done.modified THEN done.content ELSE onDisk]

\* isUIComponent: an indicator occurs in the content ('QDialog', in the class
\* line) or in the lower-cased file name ('dialog').
isUIComponent(filePath, content) ==
    \/ \E l \in 1..Len(content) : content[l] = QtClassLine
    \/ filePath.name = "dialog"

\* isQtComponent: the content has one of the Qt indicators ('Q_OBJECT').
isQtComponent(content) == Includes(content, "Q_OBJECT")

hasMocInclude(content, filePath) == Includes(content, MocInclude(filePath))

\* The violations validateConventions reports, in the order of its checks.
validateConventions(filePath, content) ==
    (IF filePath.ext = ".h" THEN <<Violation("wrong_header_extension")>> ELSE <<>>)
      \o (IF filePath.ext = ".hpp" /\ ~Includes(content, "#pragma once")
          THEN <<Violation("missing_pragma_once")>> ELSE <<>>)
      \o (IF isUIComponent(filePath, content) /\ ~InUiDir(filePath)
          THEN <<Violation("ui_component_location")>> ELSE <<>>)
      \o (IF isQtComponent(content) /\ ~hasMocInclude(content, filePath)
          THEN <<Violation("moc_include_missing")>> ELSE <<>>)

NoFixReturn == [run |-> 0]

AutoFix ==
    /\ fixRuns < MaxFixRuns
    /\ LET r == autoFixConventions(fixPath, fixViolations, fileContent)
       IN  /\ fileContent' = r.content
           /\ fixRet' = [run |-> fixRuns + 1, value |-> r.value, wrote |-> r.wrote]
    /\ fixRuns' = fixRuns + 1
    /\ UNCHANGED <<fixViolations, fixPath, outsideFix>>

\* readFileSync or writeFileSync throws: the catch block returns false and the
\* file is as it was.
AutoFixThrows ==
    /\ fixRuns < MaxFixRuns
    /\ SelectSeq(fixViolations, IsAutoFixable) # <<>>
    /\ fixRet' = [run |-> fixRuns + 1, value |-> FALSE, wrote |-> FALSE]
    /\ fixRuns' = fixRuns + 1
    /\ UNCHANGED <<fileContent, fixViolations, fixPath, outsideFix>>

FixNext == AutoFix \/ AutoFixThrows

\* The file and the violations autoFixConventions is called with.
FixInit ==
    /\ fileContent \in FileContents
    /\ fixViolations \in ViolationLists
    /\ fixPath \in FixPaths
    /\ fixRuns = 0
    /\ fixRet = NoFixReturn

\* No call of autoFixConventions is under way or to come.
NoFix ==
    /\ fileContent = <<BlankLine>>
    /\ fixViolations = <<>>
    /\ fixPath = FixedFile
    /\ fixRuns = MaxFixRuns
    /\ fixRet = NoFixReturn

(***************************************************************************)
(* LogParser.parseErrors called on its own: the texts it is given.         *)
(***************************************************************************)
GccLine(file, n) ==
    [shape |-> "gcc", file |-> file, line |-> n, column |-> 3,
     severity |-> "error", message |-> "no member 'bar'"]
MsvcLine(file, n) ==
    [shape |-> "msvc", file |-> file, line |-> n, column |-> 5,
     severity |-> "warning", message |-> "unreferenced local variable"]
CMakeLine(file, n) ==
    [shape |-> "cmake", file |-> file, line |-> n,
     context |-> "find_package", message |-> "Could not find Qt6"]
LinkerLine(file, n) ==
    [shape |-> "linker", file |-> file, line |-> n,
     message |-> "`obs_register_source'"]

LineNos == 1..MaxLineNo

LogLines ==
    {PlainLine}
      \cup {GccLine(f, n) : f \in {"./src/plugin.cpp", "src/ui/dialog.cpp"}, n \in LineNos}
      \cup {MsvcLine("src/plugin.cpp", n) : n \in LineNos}
      \cup {CMakeLine("CMakeLists.txt", n) : n \in LineNos}
      \cup {LinkerLine("src/plugin.cpp", n) : n \in LineNos}

LogTexts == UNION {[1..n -> LogLines] : n \in 0..MaxLogLines}

NotParsed == [done |-> FALSE, errors |-> <<>>]

ParseErrors ==
    /\ ~parseRet.done
    /\ parseRet' = [done |-> TRUE, errors |-> parseErrors(logOutput)]
    /\ UNCHANGED <<logOutput, outsideParse>>

ParseNext == ParseErrors

\* The text parseErrors is called with.
ParseInit ==
    /\ logOutput \in LogTexts
    /\ parseRet = NotParsed

\* No call of parseErrors on its own is to come.
NoParse ==
    /\ logOutput = <<>>
    /\ parseRet = [done |-> TRUE, errors |-> <<>>]

(***************************************************************************)
(* SimpleCMakeCacheParser: the cache file and parseCacheFile.  A line of   *)
(* the file is a comment, an entry KEY:TYPE=VALUE, a text without ':', a   *)
(* run of spaces or the empty line; '' is the one empty line.              *)
(***************************************************************************)
EmptyCacheLine == [kind |-> "empty"]
SpacesCacheLine == [kind |-> "spaces"]
CommentCacheLine == [kind |-> "comment"]
TextCacheLine == [kind |-> "text"]
EntryCacheLine(key, type, value) ==
    [kind |-> "entry", key |-> key, type |-> type, value |-> value]

CacheLineKinds ==
    {EmptyCacheLine, SpacesCacheLine, CommentCacheLine, TextCacheLine,
     EntryCacheLine("CMAKE_BUILD_TYPE", "STRING", "Debug"),
     EntryCacheLine("OBS_STUDIO_DIR", "PATH", "/deps/obs-studio"),
     EntryCacheLine("Qt6_DIR", "PATH", "/deps/qt6/lib/cmake/Qt6")}

CacheContents == UNION {[1..n -> CacheLineKinds] : n \in 1..MaxCacheLines}

AbsentCache == [exists |-> FALSE, content |-> <<>>]

CacheFiles == {AbsentCache} \cup {[exists |-> TRUE, content |-> c] : c \in CacheContents}

\* !content.trim(): nothing but white space in the file
TrimsToEmpty(content) ==
    \A k \in 1..Len(content) : content[k].kind \in {"empty", "spaces"}

\* The if-else chain of extractDependencyPaths, in order: the text looked for in
\* the trimmed line and the property of CMakeDependencyInfo it sets.
RecognizedKeys ==
    <<[key |-> "OBS_STUDIO_DIR", name |-> "obs_studio_dir"],
      [key |-> "Qt6_DIR", name |-> "qt6_dir"],
      [key |-> "Qt6Core_DIR", name |-> "qt6core_dir"],
      [key |-> "obs-frontend-api_DIR", name |-> "obs_frontend_api_dir"],
      [key |-> "libobs_DIR", name |-> "libobs_dir"]>>

\* trimmed.startsWith('#') || !trimmed.includes(':')
SkippedCacheLine(l) == l.kind # "entry"

\* trimmed.includes('<KEY>:PATH=')
IncludesKey(l, key) == l.kind = "entry" /\ l.key = key /\ l.type = "PATH"

RECURSIVE extractDependencyPaths(_, _, _)
extractDependencyPaths(content, k, dependencies) ==
    IF k > Len(content) THEN dependencies
    ELSE LET l == content[k]
             hits == {i \in 1..Len(RecognizedKeys) : IncludesKey(l, RecognizedKeys[i].key)}
         IN  IF SkippedCacheLine(l) \/ hits = {}
             THEN extractDependencyPaths(content, k + 1, dependencies)
             ELSE LET first == CHOOSE i \in hits : \A j \in hits : i <= j
                      name == RecognizedKeys[first].name
                  IN  extractDependencyPaths(content, k + 1,
                          (name :> l.value) @@ dependencies)

NoDependencies == <<>>

CacheResult(success, dependencies, warnings, errors) ==
    [success |-> success, dependencies |-> dependencies,
     warnings |-> warnings, errors |-> errors]

\* The catch block of parseCacheFile: readFileSync has thrown.
parseCacheFileCatch ==
    CacheResult(FALSE, NoDependencies, <<>>, <<"Failed to parse CMakeCache.txt">>)

\* parseCacheFile without its test of fs.existsSync: readFileSync throws on the
\* absent file and the catch block answers.
parseCacheFile_NoExistsCheck(file) ==
    IF ~file.exists THEN parseCacheFileCatch
    ELSE IF TrimsToEmpty(file.content)
    THEN CacheResult(FALSE, NoDependencies, <<"CMakeCache.txt is empty">>, <<>>)
    ELSE CacheResult(TRUE, extractDependencyPaths(file.content, 1, NoDependencies),
                     <<>>, <<>>)

\* parseCacheFile when readFileSync succeeds.
parseCacheFile(file) ==
    IF ~file.exists
    THEN CacheResult(FALSE, NoDependencies, <<>>,
                     <<"CMakeCache.txt not found in build directory">>)
    ELSE IF TrimsToEmpty(file.content)
    THEN CacheResult(FALSE, NoDependencies, <<"CMakeCache.txt is empty">>, <<>>)
    ELSE CacheResult(TRUE, extractDependencyPaths(file.content, 1, NoDependencies),
                     <<>>, <<>>)

NoCacheReturn == [done |-> FALSE]

ParseCacheFile ==
    /\ ~cacheRet.done
    /\ cacheRet' = [done |-> TRUE, via |-> "return", result |-> parseCacheFile(cacheFile)]
    /\ UNCHANGED <<cacheFile, outsideCache>>

\* The file exists and readFileSync throws (unreadable, or a directory).
ParseCacheFileReadThrows ==
    /\ ~cacheRet.done
    /\ cacheFile.exists
    /\ cacheRet' = [done |-> TRUE, via |-> "catch", result |-> parseCacheFileCatch]
    /\ UNCHANGED <<cacheFile, outsideCache>>

CacheNext == ParseCacheFile \/ ParseCacheFileReadThrows

\* The build directory parseCacheFile is called on.
CacheInit ==
    /\ cacheFile \in CacheFiles
    /\ cacheRet = NoCacheReturn

\* No call of parseCacheFile is to come.
NoCache ==
    /\ cacheFile = AbsentCache
    /\ cacheRet = [done |-> TRUE, via |-> "return", result |-> parseCacheFile(AbsentCache)]

(***************************************************************************)
(* ConfigManager: the configuration, its file and the handling of a cache  *)
(* validation result.  An object is a function from its own keys; a        *)
(* property that is absent, or present with the value undefined, reads as  *)
(* Undefined.  compareDependencies is that of SimpleCMakeCacheParser.      *)
(***************************************************************************)
Undefined == "undefined"

\* obj[key]
Get(obj, key) == IF key \in DOMAIN obj THEN obj[key] ELSE Undefined

ConfigKeys == {"obs", "qt6", "frontend_api"}
CacheKeys == {"obs_studio_dir", "qt6_dir", "obs_frontend_api_dir"}

OldPath == "/old/path"
NewPath == "/new/path"

\* Objects with some of the keys, each with one of the values.
Objects(keys, values) == UNION {[d -> values] : d \in SUBSET keys}

\* config.dependencies as loaded or saved: paths under some of the keys.
ConfigDependencies == Objects(ConfigKeys, {OldPath})

\* cacheResult.dependencies
CacheMaps == Objects(CacheKeys, {OldPath, NewPath})

CacheResults ==
    {parseCacheFile(AbsentCache)}
      \cup {CacheResult(TRUE, m, <<>>, <<>>) : m \in CacheMaps}

NullConfig == [loaded |-> FALSE, hasDependencies |-> FALSE, dependencies |-> <<>>]
Config(hasDependencies, dependencies) ==
    [loaded |-> TRUE, hasDependencies |-> hasDependencies, dependencies |-> dependencies]

Configs ==
    {NullConfig, Config(FALSE, <<>>)} \cup {Config(TRUE, d) : d \in ConfigDependencies}

\* JSON.stringify(config, null, 2) as far as `dependencies` goes: a property
\* whose value is undefined is left out.
Stringify(cfg) ==
    [hasDependencies |-> cfg.hasDependencies,
     dependencies |->
        [k \in {x \in DOMAIN cfg.dependencies : cfg.dependencies[x] # Undefined}
           |-> cfg.dependencies[k]]]

\* The cacheMapping object of compareDependencies, in the order of its keys.
cacheMapping(cache) ==
    <<[key |-> "obs", value |-> Get(cache, "obs_studio_dir")],
      [key |-> "qt6", value |-> Get(cache, "qt6_dir")]>>

compareDependencies(current, cache) ==
    LET mapping == cacheMapping(cache)
        differing == {i \in 1..Len(mapping) : Get(current, mapping[i].key) # mapping[i].value}
        differences ==
            [k \in {mapping[i].key : i \in differing} |->
               LET i == CHOOSE i \in differing : mapping[i].key = k
               IN  [current |-> Get(current, k), cache |-> mapping[i].value]]
    IN  [hasChanges |-> differing # {}, differences |-> differences]

\* The loop of updateDependencyPaths on a copy of the differences' `current`.
updateDependencyPaths_WritesCurrent(cfg, differences) ==
    IF cfg.hasDependencies
    THEN [cfg EXCEPT !.dependencies =
            [k \in DOMAIN cfg.dependencies \cup DOMAIN differences |->
               IF k \in DOMAIN differences THEN differences[k].current
               ELSE cfg.dependencies[k]]]
    ELSE cfg

\* The loop of updateDependencyPaths: this.config after it.
updateDependencyPaths(cfg, differences) ==
    IF cfg.hasDependencies
    THEN [cfg EXCEPT !.dependencies =
            [k \in DOMAIN cfg.dependencies \cup DOMAIN differences |->
               IF k \in DOMAIN differences THEN differences[k].cache
               ELSE cfg.dependencies[k]]]
    ELSE cfg

\* The keyMapping of getEffectiveDependencyPath: the cache key a configuration
\* key corresponds to.
keyMapping(key) ==
    CASE key = "obs" -> "obs_studio_dir"
      [] key = "qt6" -> "qt6_dir"
      [] key = "frontend_api" -> "obs_frontend_api_dir"

Handles == 1..MaxHandles

NoHandleReturn == [run |-> 0]

\* handleDependencyValidation returning before it compares.
SkippedHandle(run) ==
    [run |-> run, compared |-> FALSE, updated |-> FALSE, saved |-> FALSE]

\* handleDependencyValidation(cacheResult): the fields of the ConfigManager,
\* the file and the outcome after it.  saveThrows: fs.writeFileSync of saveConfig
\* throws, which the catch block of handleDependencyValidation logs.
handleDependencyValidation(cacheResult, saveThrows) ==
    IF ~cacheResult.success \/ ~config.loaded
    THEN [config |-> config, configFile |-> configFile,
          runtimeDependencies |-> runtimeDependencies,
          outcome |-> SkippedHandle(handled + 1)]
    ELSE LET currentDeps == config.dependencies
             comparison == compareDependencies(currentDeps, cacheResult.dependencies)
             updated == updateDependencyPaths(config, comparison.differences)
             saves == comparison.hasChanges /\ configPath
         IN  [config |-> IF comparison.hasChanges THEN updated ELSE config,
              configFile |-> IF saves /\ ~saveThrows THEN Stringify(updated)
                             ELSE configFile,
              runtimeDependencies |-> cacheResult.dependencies,
              outcome |-> [run |-> handled + 1, compared |-> TRUE,
                           current |-> currentDeps, comparison |-> comparison,
                           updated |-> comparison.hasChanges /\ config.hasDependencies,
                           saved |-> saves /\ ~saveThrows]]

\* saveConfig is reached: the result is successful, a configuration is loaded,
\* the comparison found differences and configPath is set.
ReachesSave(cacheResult) ==
    /\ cacheResult.success
    /\ config.loaded
    /\ compareDependencies(config.dependencies, cacheResult.dependencies).hasChanges
    /\ configPath

HandleValidation ==
    /\ handled < MaxHandles
    /\ \E cacheResult \in CacheResults :
         LET after == handleDependencyValidation(cacheResult, FALSE)
         IN  /\ lastCache' = cacheResult
             /\ config' = after.config
             /\ configFile' = after.configFile
             /\ runtimeDependencies' = after.runtimeDependencies
             /\ cfgRet' = after.outcome
    /\ handled' = handled + 1
    /\ UNCHANGED <<configPath, outsideConfig>>

HandleValidationSaveThrows ==
    /\ handled < MaxHandles
    /\ \E cacheResult \in CacheResults :
         /\ ReachesSave(cacheResult)
         /\ LET after == handleDependencyValidation(cacheResult, TRUE)
            IN  /\ lastCache' = cacheResult
                /\ config' = after.config
                /\ configFile' = after.configFile
                /\ runtimeDependencies' = after.runtimeDependencies
                /\ cfgRet' = after.outcome
    /\ handled' = handled + 1
    /\ UNCHANGED <<configPath, outsideConfig>>

ConfigNext == HandleValidation \/ HandleValidationSaveThrows

\* The ConfigManager after loadConfig, saveConfig or neither.
ConfigInit ==
    /\ config \in Configs
    /\ configPath \in BOOLEAN
    /\ config.loaded \/ ~configPath
    /\ configFile = Stringify(config)
    /\ runtimeDependencies = <<>>
    /\ handled = 0
    /\ lastCache = parseCacheFile(AbsentCache)
    /\ cfgRet = NoHandleReturn

\* No cache validation result is to be handled.
NoConfig ==
    /\ config = NullConfig
    /\ configPath = FALSE
    /\ configFile = Stringify(NullConfig)
    /\ runtimeDependencies = <<>>
    /\ handled = MaxHandles
    /\ lastCache = parseCacheFile(AbsentCache)
    /\ cfgRet = NoHandleReturn

Init == ExecInit /\ PatchInit /\ NoFix /\ NoParse /\ NoCache /\ NoConfig

\* The other components at rest, autoFixConventions about to be called.
FixStart == ExecInit /\ PatchInit /\ FixInit /\ NoParse /\ NoCache /\ NoConfig

\* The other components at rest, parseErrors about to be called.
ParseStart == ExecInit /\ PatchInit /\ NoFix /\ ParseInit /\ NoCache /\ NoConfig

\* The other components at rest, parseCacheFile about to be called.
CacheStart == ExecInit /\ PatchInit /\ NoFix /\ NoParse /\ CacheInit /\ NoConfig

\* The other components at rest, cache validation results about to be handled.
ConfigStart == ExecInit /\ PatchInit /\ NoFix /\ NoParse /\ NoCache /\ ConfigInit

Next == ExecNext \/ PatchNext \/ FixNext \/ ParseNext \/ CacheNext \/ ConfigNext

ExecSpec == Init /\ [][ExecNext]_vars
PatchSpec == Init /\ [][PatchNext]_vars
FixSpec == FixStart /\ [][FixNext]_vars
ParseSpec == ParseStart /\ [][ParseNext]_vars
CacheSpec == CacheStart /\ [][CacheNext]_vars
ConfigSpec == ConfigStart /\ [][ConfigNext]_vars
Spec == Init /\ [][Next]_vars

(***************************************************************************)
(* Claims about BuildExecutor, checked under ExecSpec.                     *)
(***************************************************************************)
Returned == ret # NoReturn

RECURSIVE IsSubSeq(_, _)
\* s occurs in t as a contiguous part.
IsSubSeq(s, t) ==
    \/ s = <<>>
    \/ /\ Len(s) <= Len(t)
       /\ \/ SubSeq(t, 1, Len(s)) = s
          \/ IsSubSeq(s, Tail(t))

\* C1: while the handle refers to a running build process, no step of the
\* orchestrator spawns another process or replaces the handle by another one.
C1_RejectConcurrentStart ==
    [][(currentProcess # 0 /\ proc[currentProcess] = "running")
         => /\ currentProcess' \in {0, currentProcess}
            /\ \A j \in Calls : proc[j] = "none" => proc'[j] = "none"]_vars

\* C2: whenever configure/build/clean returns, the handle is null at that moment.
C2_HandleClearedOnReturn == Returned => currentProcess = 0

\* C3: a call on whose running process cancel() acted returns a failed result.
C3_CancelYieldsFailure == (Returned /\ ret.cancelled) => ~ret.result.success

\* C4: once cancel() has acted on a process, no step appends a chunk of that
\* process to the closure strings (the result's stdout/stderr) or to the channel.
C4_NoOutputAfterCancel ==
    [][\A i \in Calls : cancelled[i]
         => /\ Len(stdout'[i]) <= Len(stdout[i])
            /\ Len(stderr'[i]) <= Len(stderr[i])
            /\ \A k \in 1..Len(sink') : sink'[k].p # i]_vars

\* C5: a call has returned by the time its 5-minute timer stops pending (it
\* fired, or 'close' cleared it): no call outlives its timeout.
C5_ReturnsByTimeout ==
    [][\A i \in Calls : (timer[i] /\ ~timer'[i]) => call'[i] = "returned"]_vars

\* C9: a result returned because of the timeout is failed, contains the stdout
\* and stderr captured until then and the diagnostics parsed from that stderr,
\* and carries the preset id and the command.
C9_TimeoutKeepsOutput ==
    (Returned /\ ret.via = "timeout")
      => /\ ~ret.result.success
         /\ IsSubSeq(ret.out, ret.result.stdout)
         /\ IsSubSeq(ret.err, ret.result.stderr)
         /\ ret.op # "clean" => ret.result.errors = parseErrors(ret.err)
         /\ ret.result.cmake_preset = ret.profile.cmake_preset
         /\ ret.result.build_command = CommandOf(ret.op, ret.profile)

\* C10: a call ended by an 'error' event or by a throwing spawn returns (does not
\* throw) a result with success=false, exit_code=-1, the preset id and the command.
C10_SpawnFailureIsResult ==
    (Returned /\ ret.via \in {"error", "spawn"})
      => /\ ret.kind = "result"
         /\ ~ret.result.success
         /\ ret.result.exit_code = -1
         /\ ret.result.cmake_preset = ret.profile.cmake_preset
         /\ ret.result.build_command = CommandOf(ret.op, ret.profile)

\* C11: a build whose process exited with code 0 returns success=true and an
\* empty diagnostics list, whatever the process wrote to stderr.
C11_ExitZeroNoDiagnostics ==
    (Returned /\ ret.op = "build" /\ ret.via = "close" /\ ret.result.exit_code = 0)
      => /\ ret.result.success
         /\ ret.result.errors = <<>>

\* C12: configure runs validateDependencyPaths exactly when its process exited
\* with code 0, and whatever the validation meets, the returned success flag and
\* exit code are those of the process.
C12_ValidationOnExitZero ==
    (Returned /\ ret.op = "configure" /\ ret.via = "close")
      => /\ ret.validated <=> (ret.code = <<0>>)
         /\ ret.result.success = (ExitCodeOf(ret.code) = 0)
         /\ ret.result.exit_code = ExitCodeOf(ret.code)

\* A clean call whose spawn threw returns while an earlier call has ended by an
\* 'error' event (its process never emitted 'close').
C10_Witness ==
    /\ Returned /\ ret.via = "spawn" /\ ret.op = "clean"
    /\ \E j \in Calls : proc[j] = "errored" /\ call[j] = "returned"

(***************************************************************************)
(* Claims about PatchGenerator, checked under PatchSpec.                   *)
(***************************************************************************)
ApplyReturned == aret # NoApplyReturn

\* A target file does not exist, or a diff-type patch lacks the diff structure.
FailsValidation(patch) ==
    \/ \E k \in 1..Len(patch.target_files) : patch.target_files[k] \notin ExistingFiles
    \/ /\ patch.type = "unified_diff"
       /\ \/ ~SomeLineStartsWith(patch.content, "@@")
          \/ ~SomeLineStartsWith(patch.content, "---")
          \/ ~SomeLineStartsWith(patch.content, "+++")

\* The patch on which call a has just started.
StartedOn(a) == IF acall'[a].pc = "returned" THEN aret'.patch ELSE acall'[a].patch

\* C6: the step in which applyPatch starts on a patch that fails validation
\* ends the call with false and mutates nothing: the scratch file, the working
\* tree and the patch are unchanged and no git command is invoked.
C6_RejectedApplyMutatesNothing ==
    [][\A a \in Applies :
         (acall[a].pc = "idle" /\ acall'[a].pc # "idle"
            /\ FailsValidation(patches[StartedOn(a)]))
           => /\ acall'[a].pc = "returned"
              /\ aret'.call = a /\ ~aret'.value
              /\ scratch' = scratch
              /\ tree' = tree
              /\ gitlog' = <<>>
              /\ patches' = patches]_vars

\* An applyPatch call has just returned false on a diff-type patch whose target
\* files exist but whose markers are not at line starts; the patch is untouched.
C6_Witness ==
    /\ ApplyReturned /\ ~aret.value
    /\ patches[aret.patch].type = "unified_diff"
    /\ patches[aret.patch].content = InlineMarkers
    /\ patches[aret.patch].target_files = <<PluginCpp, DialogHpp>>
    /\ patches[aret.patch].validation_status = "pending"

\* C7: whenever applyPatch returns false, the patch's validation_status is
\* 'invalid' and the call has made no commit.
C7_FalseMeansInvalid ==
    (ApplyReturned /\ ~aret.value)
      => /\ patches[aret.patch].validation_status = "invalid"
         /\ ~aret.committed
         /\ \A k \in 1..Len(gitlog) : gitlog[k].cmd # "commit"

\* C8: a patch's validation_status, once no longer 'pending', never changes
\* again, and `git apply` applies a patch to the tree on behalf of at most one
\* applyPatch call on it.
C8_ConsumedOnce ==
    [][/\ \A p \in 1..Len(patches) :
            patches[p].validation_status # "pending"
              => patches'[p].validation_status = patches[p].validation_status
       /\ Len(tree') > Len(tree)
            => \A k \in 1..Len(tree) : tree[k].patch # tree'[Len(tree')].patch]_vars

\* C13: in the step in which applyUnifiedDiff returns after its `git apply`
\* (succeeded or failed), the scratch file does not exist any more.
C13_ScratchRemovedOnReturn ==
    [][\A a \in Applies :
         (acall[a].pc = "git_exit" /\ acall'[a].pc # "git_exit") => scratch' = <<>>]_vars

\* applyUnifiedDiff has just returned true for a diff-type patch (applyPatch has
\* gone on to stage the first file) and the scratch file is gone.
C13_Witness ==
    \E a \in Applies :
        /\ acall[a].pc = "auto_commit"
        /\ patches[acall[a].patch].type = "unified_diff"
        /\ Len(gitlog) = 1 /\ gitlog[1].cmd = "add"
        /\ tree # <<>>
        /\ scratch = <<>>

\* C14: every patch built by generatePatch whose target files all exist passes
\* validatePatch; a diff-type patch is rejected only if one of the markers @@,
\* --- and +++ does not occur in its content, whatever its convention_compliance.
C14_ExistingTargetsValidate ==
    \A p \in 1..Len(patches) :
        (\A k \in 1..Len(patches[p].target_files) :
            patches[p].target_files[k] \in ExistingFiles)
          => /\ validatePatch(patches[p]).valid
             /\ (patches[p].type = "unified_diff" /\ ~validatePatch(patches[p]).valid)
                  => \E marker \in {"@@", "---", "+++"} :
                         ~Includes(patches[p].content, marker)

\* The step invokes `git add` or `git commit`.
Stages == \E k \in 1..Len(gitlog') : gitlog'[k].cmd \in {"add", "commit"}

\* C15: a patch comes out of generatePatch 'pending' with auto_commit equal to
\* the conventionCompliant argument; applyPatch invokes git add / git commit only
\* for a patch whose auto_commit is true and only after its apply succeeded
\* (for a diff: `git apply` applied it), so no call commits a non-compliant patch.
C15_CommitOnlyAutoCommit ==
    [][/\ Len(patches') > Len(patches)
            => /\ patches'[Len(patches')].validation_status = "pending"
               /\ patches'[Len(patches')].auto_commit
                    = patches'[Len(patches')].convention_compliance
       /\ \A a \in Applies :
            (acall'[a] # acall[a] /\ Stages)
              => LET p == IF acall[a].patch # 0 THEN acall[a].patch ELSE acall'[a].patch
                 IN  /\ patches[p].auto_commit
                     /\ patches[p].convention_compliance
                     /\ patches[p].type = "unified_diff"
                          => \E k \in 1..Len(tree) : tree[k].patch = p
       /\ (aret' # NoApplyReturn /\ aret'.committed)
            => patches[aret'.patch].auto_commit]_vars

\* applyPatch has just returned true for a diff-type patch generated as
\* non-compliant: `git apply` applied it and the call committed nothing.
C15_Witness ==
    /\ ApplyReturned /\ aret.value /\ ~aret.committed
    /\ ~patches[aret.patch].convention_compliance
    /\ ~patches[aret.patch].auto_commit
    /\ patches[aret.patch].type = "unified_diff"
    /\ patches[aret.patch].validation_status = "valid"
    /\ \E k \in 1..Len(tree) : tree[k].patch = aret.patch
    /\ gitlog = <<>>

(***************************************************************************)
(* Claims about autoFixConventions, checked under FixSpec.                 *)
(***************************************************************************)
\* Lines of the content that are the directive.
PragmaCount(content) == Cardinality({k \in 1..Len(content) : content[k] = PragmaLine})

\* C16: a run of autoFixConventions writes the file exactly when it changed the
\* content; a run that follows a completed run with the same violations writes
\* nothing and leaves the content as it is; and the first run on a file without
\* '#pragma once', given the missing_pragma_once violation, inserts it once.
C16_AutoFixIdempotent ==
    [][fixRuns' = fixRuns + 1
         => /\ fixRet'.wrote <=> (fileContent' # fileContent)
            /\ (fixRuns >= 1 /\ fixRet.value)
                 => (~fixRet'.wrote /\ fileContent' = fileContent)
            /\ ( /\ fixRuns = 0
                 /\ fixRet'.value
                 /\ ~Includes(fileContent, "#pragma once")
                 /\ \E k \in 1..Len(fixViolations) :
                        fixViolations[k] = Violation("missing_pragma_once") )
                 => (fixRet'.wrote /\ PragmaCount(fileContent') = 1)]_vars

\* The second run, given the violation twice, has returned true without writing;
\* the first run had put the directive after the leading comment line.
C16_Witness ==
    /\ fixRuns = 2
    /\ fixRet = [run |-> 2, value |-> TRUE, wrote |-> FALSE]
    /\ fixViolations = <<Violation("missing_pragma_once"), Violation("missing_pragma_once")>>
    /\ fileContent = <<CommentLine, PragmaLine, BlankLine, QtClassLine>>

(***************************************************************************)
(* Claims about LogParser.parseErrors, checked under ParseSpec.            *)
(***************************************************************************)
\* The line matches one of the four patterns of errorPatterns.
MatchesAPattern(l) == \E k \in 1..Len(errorPatterns) : errorPatterns[k] = l.shape

\* C17: every line of the text that matches one of the four patterns (GCC/Clang,
\* MSVC, CMake 'Error at', linker 'undefined reference') has exactly one
\* diagnostic in the result of parseErrors, with the line's (normalized) file and
\* its line number; the result holds nothing else.
C17_OneDiagnosticPerMatch ==
    parseRet.done
      => /\ Len(parseRet.errors) =
              Cardinality({k \in 1..Len(logOutput) : MatchesAPattern(logOutput[k])})
         /\ \A k \in 1..Len(logOutput) :
              MatchesAPattern(logOutput[k])
                => \E j \in 1..Len(parseRet.errors) :
                     /\ parseRet.errors[j].file = normalize(logOutput[k].file)
                     /\ parseRet.errors[j].line = logOutput[k].line

\* C18: the list parseErrors returns is in ascending order of file and, within
\* one file, of line, for every text.
C18_SortedByFileThenLine ==
    parseRet.done
      => \A i, j \in 1..Len(parseRet.errors) :
           i < j => \/ FileRank(parseRet.errors[i].file) < FileRank(parseRet.errors[j].file)
                    \/ /\ parseRet.errors[i].file = parseRet.errors[j].file
                       /\ parseRet.errors[i].line <= parseRet.errors[j].line

\* A text whose lines come in descending order of file and line, matched by
\* three different patterns, has been parsed into three diagnostics.
C18_Witness ==
    /\ parseRet.done
    /\ logOutput = <<GccLine("./src/plugin.cpp", 2), MsvcLine("src/plugin.cpp", 1),
                     CMakeLine("CMakeLists.txt", 1)>>
    /\ Len(parseRet.errors) = 3
    /\ parseRet.errors[1].file = "CMakeLists.txt"
    /\ parseRet.errors[2].line = 1
    /\ parseRet.errors[3].line = 2

(***************************************************************************)
(* Claims about parseCacheFile, checked under CacheSpec.                   *)
(***************************************************************************)
\* C19: parseCacheFile on a build directory whose cache file exists and is empty
\* returns success = true and an empty dependency map.
C19_EmptyCacheIsValid ==
    ( /\ cacheRet.done
      /\ cacheRet.via = "return"
      /\ cacheFile.exists
      /\ cacheFile.content = <<EmptyCacheLine>> )
      => /\ cacheRet.result.success
         /\ cacheRet.result.dependencies = NoDependencies

\* C20: parseCacheFile on a build directory without a cache file returns, and
\* not by way of its catch block: success = false, an empty dependency map and
\* the one error entry 'CMakeCache.txt not found in build directory'.
C20_MissingCacheIsFailure ==
    (cacheRet.done /\ ~cacheFile.exists)
      => /\ cacheRet.via = "return"
         /\ ~cacheRet.result.success
         /\ cacheRet.result.dependencies = NoDependencies
         /\ cacheRet.result.errors = <<"CMakeCache.txt not found in build directory">>

\* parseCacheFile has returned its failure for a directory without the file.
C20_Witness ==
    /\ cacheRet.done
    /\ cacheFile = AbsentCache
    /\ ~cacheRet.result.success
    /\ Len(cacheRet.result.errors) = 1

(***************************************************************************)
(* Claims about compareDependencies and the ConfigManager, checked under   *)
(* ConfigSpec.                                                             *)
(***************************************************************************)
\* The last handleDependencyValidation call got as far as compareDependencies.
Compared == cfgRet.run > 0 /\ cfgRet.compared

\* C21: compareDependencies(current, cache) reports hasChanges = false exactly
\* when current and cache agree on each of obs, qt6 and frontend_api (undefined
\* on both sides agreeing), and differences holds {current, cache} for the
\* differing keys and for no other.
C21_CompareReportsEveryKey ==
    Compared
      => LET current == cfgRet.current
             cache == lastCache.dependencies
             differing == {k \in ConfigKeys : Get(current, k) # Get(cache, keyMapping(k))}
         IN  /\ cfgRet.comparison.hasChanges = (differing # {})
             /\ DOMAIN cfgRet.comparison.differences = differing
             /\ \A k \in differing :
                  cfgRet.comparison.differences[k] =
                    [current |-> Get(current, k), cache |-> Get(cache, keyMapping(k))]

\* C25: handling a successful cache result leaves every configured path for
\* which the cache defines none as it was, in config.dependencies and, when the
\* configuration is saved, in the file.
C25_DefinedPathNeverLost ==
    [][(handled' = handled + 1 /\ lastCache'.success)
         => \A k \in ConfigKeys :
              ( /\ Get(config.dependencies, k) # Undefined
                /\ Get(lastCache'.dependencies, keyMapping(k)) = Undefined )
                => /\ Get(config'.dependencies, k) = Get(config.dependencies, k)
                   /\ cfgRet'.saved
                        => Get(configFile'.dependencies, k) = Get(config.dependencies, k)]_vars

\* C29: once a call has written the differences into config.dependencies, the
\* configuration compared with that cache map has no changes, and a following
\* call with the same result changes neither the configuration nor the file.
C29_HandlingIsIdempotent ==
    [][handled' = handled + 1
         => /\ cfgRet'.updated
                 => ~compareDependencies(config'.dependencies,
                                         lastCache'.dependencies).hasChanges
            /\ (cfgRet.run > 0 /\ cfgRet.updated /\ lastCache' = lastCache)
                 => /\ config' = config
                    /\ configFile' = configFile
                    /\ ~cfgRet'.saved]_vars

\* The second call found the configuration, which holds the cache's path for
\* obs since the first call, equal to the cache and saved nothing.
C29_Witness ==
    /\ handled = 2
    /\ Compared
    /\ ~cfgRet.comparison.hasChanges
    /\ ~cfgRet.saved
    /\ Get(cfgRet.current, "obs") = NewPath
    /\ Get(lastCache.dependencies, "obs_studio_dir") = NewPath
    /\ Get(configFile.dependencies, "obs") = NewPath

(***************************************************************************)
(* Further claims about the BuildExecutor, checked under ExecSpec.         *)
(***************************************************************************)
\* C22: a process that is running and was sent no SIGTERM, by cancel() or by a
\* timeout, is the one the handle refers to.
C22_HandleRefersToRunning ==
    \A i \in Calls : (proc[i] = "running" /\ ~signalled[i]) => currentProcess = i

\* C23: when the timer of invocation i fires, the only process that may get the
\* SIGTERM is the process of invocation i.
C23_TimeoutKillsOwnProcess ==
    [][\A i, j \in Calls :
         ( /\ timer[i] /\ ~timer'[i]
           /\ proc' = proc
           /\ ~signalled[j] /\ signalled'[j] )
           => i = j]_vars

(***************************************************************************)
(* Further claims about the PatchGenerator, checked under PatchSpec.       *)
(***************************************************************************)
\* C24: when applyPatch returns true for an edit_instructions patch, the edits
\* of that patch are in the working tree.
C24_EditStepsReachTheTree ==
    ( /\ ApplyReturned
      /\ aret.value
      /\ patches[aret.patch].type = "edit_instructions" )
      => \E k \in 1..Len(tree) :
           /\ tree[k].patch = aret.patch
           /\ tree[k].content = patches[aret.patch].content

\* C26: when the `git apply` of an applyPatch call reads the scratch file, the
\* file is there and holds the content of that call's patch, whatever other
\* applyPatch calls are under way.
C26_GitApplyReadsOwnPatch ==
    [][\A a \in Applies :
         (acall[a].pc = "git_apply" /\ acall'[a].pc = "git_exit")
           => scratch = patches[acall[a].patch].content]_vars

(***************************************************************************)
(* Further claims about autoFixConventions, checked under FixSpec.         *)
(***************************************************************************)
\* The line holds the fragment that closes a block comment.
ClosesBlock(line) == \E k \in 1..Len(line) : line[k] = "*/"

\* The leading comment block of a file: len is the number of leading lines that
\* are comment or blank, a line inside a /* ... */ block counting as comment
\* until the block closes; commentEnd is the last comment line among them.
RECURSIVE LeadingComments(_, _, _, _)
LeadingComments(lines, k, inBlock, lastComment) ==
    IF k > Len(lines) THEN [len |-> Len(lines), commentEnd |-> lastComment]
    ELSE LET l == Trim(lines[k])
         IN  IF inBlock
             THEN LeadingComments(lines, k + 1, ~ClosesBlock(l), k)
             ELSE IF StartsWith(l, "//")
             THEN LeadingComments(lines, k + 1, FALSE, k)
             ELSE IF StartsWith(l, "/*")
             THEN LeadingComments(lines, k + 1, ~ClosesBlock(l), k)
             ELSE IF l = <<>>
             THEN LeadingComments(lines, k + 1, FALSE, lastComment)
             ELSE [len |-> k - 1, commentEnd |-> lastComment]

\* C27: when a run of autoFixConventions inserts '#pragma once', the directive
\* comes after every line of the file's leading comment block, the lines of a
\* multi-line /* ... */ block included, and before the first line that is
\* neither comment nor blank.
C27_PragmaAfterCommentBlock ==
    [][( /\ fixRuns' = fixRuns + 1
         /\ ~Includes(fileContent, "#pragma once")
         /\ Includes(fileContent', "#pragma once") )
         => LET at == CHOOSE k \in 1..Len(fileContent') :
                        /\ fileContent'[k] = PragmaLine
                        /\ \A j \in 1..(k - 1) : fileContent'[j] # PragmaLine
                leading == LeadingComments(fileContent, 1, FALSE, 0)
            IN  /\ leading.commentEnd <= at - 1
                /\ at - 1 <= leading.len]_vars

\* C28: after a run of autoFixConventions on a file with the violations that
\* validateConventions reports for it, validateConventions reports none of the
\* kinds it had reported as auto-fixable.
C28_AutoFixableIsFixed ==
    [][( /\ fixRuns = 0
         /\ fixRuns' = 1
         /\ fixRet'.value
         /\ fixViolations = validateConventions(fixPath, fileContent) )
         => LET after == validateConventions(fixPath, fileContent')
            IN  \A k \in 1..Len(fixViolations) :
                  fixViolations[k].auto_fixable
                    => \A j \in 1..Len(after) : after[j].type # fixViolations[k].type]_vars

(***************************************************************************)
(* A further claim about LogParser.parseErrors, checked under ParseSpec.   *)
(***************************************************************************)
\* C30: a line 'CMake Error at file:line (context): message' has a diagnostic
\* of severity 'error' with the line's file, line number and message text.
C30_CMakeErrorSeverity ==
    parseRet.done
      => \A k \in 1..Len(logOutput) :
           logOutput[k].shape = "cmake"
             => \E j \in 1..Len(parseRet.errors) :
                  /\ parseRet.errors[j].file = normalize(logOutput[k].file)
                  /\ parseRet.errors[j].line = logOutput[k].line
                  /\ parseRet.errors[j].message = logOutput[k].message
                  /\ parseRet.errors[j].severity = "error"

====
